---- MODULE Spec2Model ----
(***************************************************************************)
(* Model of best-price-tracker (src/app.py): the Steam price lookup, the   *)
(* /search handler and the wishlist handlers, with the SQLAlchemy session  *)
(* (pending objects, autoflush, commit, rollback) made explicit.           *)
(*                                                                         *)
(* Strings are sequences of one-character strings.  A Game row's id is its *)
(* position in the table (SQLite rowid, rows are never deleted).  A price  *)
(* is kept as <<dollars, cents>>.                                          *)
(***************************************************************************)
EXTENDS Integers, Sequences, FiniteSets, TLC

VARIABLES
    games,        \* committed Game table: Seq of [name, steam_id, price]
    wishlist,     \* committed Wishlist table: set of [id, game_id, target_price]
    pc,           \* position of the request being handled by search()
    game_name,    \* search(): request.form['game_name']
    upstream,     \* what the Steam endpoints answer for this request
    steam_games,  \* search(): result of get_steam_price_by_name
    idx,          \* search(): number of steam_games already processed
    found,        \* search(): ids of the rows of the step-1 name query
    session,      \* search(): the session's view of Game (flushed, uncommitted)
    pending,      \* search(): Game objects added to the session, not yet flushed
    new_games,    \* search(): ids of the Game objects created by this request
    games0,       \* Game table when the request in `response` started
    request,      \* inputs of the last wishlist request handled on its own
    response,     \* outcome of the last request
    reqs          \* concurrent add_to_wishlist requests in flight

vars == <<games, wishlist, pc, game_name, upstream, steam_games, idx, found,
          session, pending, new_games, games0, request, response, reqs>>

searchVars == <<pc, game_name, upstream, steam_games, idx, found, session,
                pending, new_games, games0>>

-----------------------------------------------------------------------------
(* Bounds and input domains *)

\* Longest item list the Steam search endpoint returns in the model.
MaxItems == 2

NameAbc == <<"A", "b", "c">>
NameXy  == <<"x", "y">>
Names   == {NameAbc, NameXy}

AppIds  == {1, 2}

\* "aBc", "xy" (one word of length 2), "a abc" (a short word and a long one)
Queries == { <<"a", "B", "c">>, <<"x", "y">>, <<"a", " ", "a", "b", "c">> }

\* price_overview.final values (cents) the details endpoint returns
Finals  == {499, 999}

\* Outcome of the appdetails call for one candidate
Details == [kind : {"fail", "noprice"}, final : {0}]
             \cup [kind : {"price"}, final : Finals]

Candidates == [name : Names, id : AppIds, details : Details]

RECURSIVE SeqsUpTo(_, _)
SeqsUpTo(S, n) ==
    IF n = 0 THEN { <<>> }
    ELSE LET shorter == SeqsUpTo(S, n - 1)
         IN  shorter \cup { Append(s, x) : s \in shorter, x \in S }

\* Answers of the storesearch call.  A timeout has no body and a body that
\* is not JSON has no items; a non-success status may come with any body.
Upstreams ==
    [status : {"timeout", "bad_json"}, items : { <<>> }]
      \cup [status : {"http_error", "ok"},
            items : SeqsUpTo(Candidates, MaxItems)]

-----------------------------------------------------------------------------
(* String functions *)

\* str.lower()
LowerChar(c) ==
    CASE c = "A" -> "a"
      [] c = "B" -> "b"
      [] c = "C" -> "c"
      [] c = "X" -> "x"
      [] c = "Y" -> "y"
      [] OTHER   -> c

Lower(s) == [i \in 1..Len(s) |-> LowerChar(s[i])]

IsSpace(c) == c = " "

\* str.split(): maximal runs of non-whitespace characters, in order
RECURSIVE SplitFrom(_, _, _)
SplitFrom(s, i, word) ==
    IF i > Len(s)
    THEN IF word = <<>> THEN <<>> ELSE <<word>>
    ELSE IF IsSpace(s[i])
         THEN IF word = <<>>
              THEN SplitFrom(s, i + 1, <<>>)
              ELSE <<word>> \o SplitFrom(s, i + 1, <<>>)
         ELSE SplitFrom(s, i + 1, Append(word, s[i]))

Split(s) == SplitFrom(s, 1, <<>>)

\* `needle in hay`: scan the start positions left to right
RECURSIVE FindFrom(_, _, _)
FindFrom(hay, needle, i) ==
    IF i + Len(needle) - 1 > Len(hay) THEN FALSE
    ELSE IF SubSeq(hay, i, i + Len(needle) - 1) = needle THEN TRUE
    ELSE FindFrom(hay, needle, i + 1)

In(needle, hay) == FindFrom(hay, needle, 1)

\* name ILIKE '%text%'
ILike(name, text) == In(Lower(text), Lower(name))

-----------------------------------------------------------------------------
(* Price lookup client *)

\* price_data['final'] / 100 if price_data['final'] else 0.0
Price(final) ==
    IF final # 0 THEN <<final \div 100, final % 100>> ELSE <<0, 0>>

\* Variant of AllWordsIn without the `len(word) > 2` condition: every query
\* word must occur in the name (C7 fails under it)
RECURSIVE AllWordsIn_EveryWord(_, _)
AllWordsIn_EveryWord(words, name) ==
    IF words = <<>> THEN TRUE
    ELSE IF ~In(Head(words), Lower(name)) THEN FALSE
    ELSE AllWordsIn_EveryWord(Tail(words), name)

\* all(word in game['name'].lower() for word in game_name.lower().split()
\*     if len(word) > 2)
RECURSIVE AllWordsIn(_, _)
AllWordsIn(words, name) ==
    IF words = <<>> THEN TRUE
    ELSE IF Len(Head(words)) > 2 /\ ~In(Head(words), Lower(name)) THEN FALSE
    ELSE AllWordsIn(Tail(words), name)

NameMatches(query, name) == AllWordsIn(Split(Lower(query)), name)

\* fetch_price_data: price_overview, or None on a request error / no data
fetch_price_data(details) ==
    IF details.kind = "price" THEN [none |-> FALSE, final |-> details.final]
    ELSE [none |-> TRUE, final |-> 0]

RECURSIVE MatchingGames(_, _)
MatchingGames(query, items) ==
    IF items = <<>> THEN <<>>
    ELSE LET game == Head(items)
             rest == MatchingGames(query, Tail(items))
         IN  IF NameMatches(query, game.name)
             THEN LET price_data == fetch_price_data(game.details)
                  IN  IF ~price_data.none
                      THEN << [name  |-> game.name,
                               appid |-> game.id,
                               price |-> Price(price_data.final)] >> \o rest
                      ELSE rest
             ELSE rest

\* Variant of get_steam_price_by_name without raise_for_status(): the body of
\* a non-success answer is used (C3 fails under it)
get_steam_price_by_name_NoStatusCheck(query, up) ==
    MatchingGames(query, up.items)

\* get_steam_price_by_name: a RequestException on the search call (the
\* timeout, raise_for_status, the JSON decoding) gives []
get_steam_price_by_name(query, up) ==
    IF up.status = "ok" THEN MatchingGames(query, up.items) ELSE <<>>

-----------------------------------------------------------------------------
(* Game repository, on a table t (a sequence of rows) *)

\* Variant of NameQuery with like() in place of ilike() on a case-sensitive
\* column (C2 fails under it)
RECURSIVE NameQuery_CaseSensitive(_, _, _)
NameQuery_CaseSensitive(t, text, i) ==
    IF i > Len(t) THEN <<>>
    ELSE IF In(text, t[i].name)
         THEN <<i>> \o NameQuery_CaseSensitive(t, text, i + 1)
         ELSE NameQuery_CaseSensitive(t, text, i + 1)

\* Game.query.filter(Game.name.ilike(f"%{game_name}%")).all(): row ids
RECURSIVE NameQuery(_, _, _)
NameQuery(t, text, i) ==
    IF i > Len(t) THEN <<>>
    ELSE IF ILike(t[i].name, text)
         THEN <<i>> \o NameQuery(t, text, i + 1)
         ELSE NameQuery(t, text, i + 1)

\* Variant of FirstBySteamId in which the text column never equals the
\* integer appid, so no row is ever found (C10 fails under it)
FirstBySteamId_NeverEqual(t, appid, i) == 0

\* Game.query.filter_by(steam_id=...).first(): row id, 0 when there is none
\* (SQLite stores the appid as text and compares the parameter as text)
RECURSIVE FirstBySteamId(_, _, _)
FirstBySteamId(t, appid, i) ==
    IF i > Len(t) THEN 0
    ELSE IF t[i].steam_id = appid THEN i
    ELSE FirstBySteamId(t, appid, i + 1)

\* UNIQUE(name): can the row be INSERTed into t
NameIsFree(t, name) == \A i \in 1..Len(t) : t[i].name # name

\* Session flush: INSERT the pending objects in order; IntegrityError when a
\* name is already in the table
RECURSIVE Flush(_, _)
Flush(t, pend) ==
    IF pend = <<>> THEN [ok |-> TRUE, table |-> t]
    ELSE IF NameIsFree(t, Head(pend).name)
         THEN Flush(Append(t, Head(pend)), Tail(pend))
         ELSE [ok |-> FALSE, table |-> t]

SetPrice(t, i, price) == [t EXCEPT ![i].price = price]

-----------------------------------------------------------------------------
(* Requests and responses *)

NoFlash == [msg |-> "none", game |-> <<>>]

NoRequest == [handler |-> "none"]

NoResponse == [handler |-> "none", kind |-> "none", rows |-> <<>>,
               flash |-> NoFlash, dbops |-> 0]

\* render_template('index.html', games=rows)
Render(rows) == [handler |-> "search", kind |-> "render", rows |-> rows,
                 flash |-> NoFlash, dbops |-> 0]

\* An exception left the handler: no page is rendered
ServerError == [handler |-> "search", kind |-> "error", rows |-> <<>>,
                flash |-> NoFlash, dbops |-> 0]

\* redirect(url_for('wishlist')) after `dbops` database calls, with the
\* notice flashed for the next page
Redirect(handler, flash, dbops) ==
    [handler |-> handler, kind |-> "redirect", rows |-> <<>>,
     flash |-> flash, dbops |-> dbops]

-----------------------------------------------------------------------------
(* State after construction: db.create_all() on a new database *)

Init ==
    /\ games = <<>>
    /\ wishlist = {}
    /\ pc = "idle"
    /\ game_name = <<>>
    /\ upstream = [status |-> "ok", items |-> <<>>]
    /\ steam_games = <<>>
    /\ idx = 0
    /\ found = <<>>
    /\ session = <<>>
    /\ pending = <<>>
    /\ new_games = <<>>
    /\ games0 = <<>>
    /\ request = NoRequest
    /\ response = NoResponse
    /\ reqs = <<>>

-----------------------------------------------------------------------------
(* POST /search *)

\* Lines 104-116 and 125-133, 146-148: the name query, the lookup, and the
\* choice of branch; with an empty lookup result the response is rendered here.
SearchStart ==
    /\ pc = "idle"
    /\ \E q \in Queries, up \in Upstreams :
         LET local  == NameQuery(games, q, 1)
             result == get_steam_price_by_name(q, up)
         IN  /\ game_name' = q
             /\ upstream' = up
             /\ found' = local
             /\ steam_games' = result
             /\ games0' = games
             /\ idx' = 0
             /\ session' = games
             /\ pending' = <<>>
             /\ new_games' = <<>>
             /\ IF result = <<>>
                THEN /\ pc' = "done"
                     /\ response' = IF local # <<>> THEN Render(local)
                                    ELSE Render(<<>>)
                ELSE /\ pc' = IF local # <<>> THEN "refresh" ELSE "insert"
                     /\ response' = NoResponse
    /\ UNCHANGED <<games, wishlist, request, reqs>>

\* Lines 117-122: one iteration of the loop taken when local rows were found
SearchRefreshItem ==
    /\ pc = "refresh"
    /\ idx < Len(steam_games)
    /\ LET steam_game    == steam_games[idx + 1]
           existing_game == FirstBySteamId(games, steam_game.appid, 1)
       IN  /\ IF existing_game # 0
              THEN games' = SetPrice(games, existing_game, steam_game.price)
              ELSE games' = games
           /\ session' = games'
    /\ idx' = idx + 1
    /\ UNCHANGED <<wishlist, pc, game_name, upstream, steam_games, found,
                   pending, new_games, games0, request, response, reqs>>

\* Lines 123-124: after the loop, render the rows of the name query
SearchRefreshDone ==
    /\ pc = "refresh"
    /\ idx = Len(steam_games)
    /\ pc' = "done"
    /\ response' = Render(found)
    /\ UNCHANGED <<games, wishlist, game_name, upstream, steam_games, idx,
                   found, session, pending, new_games, games0, request, reqs>>

\* Lines 135-143: one iteration of the loop taken when no local row was found.
\* The query autoflushes the pending objects first; an IntegrityError there
\* leaves the handler and the session is rolled back.
SearchInsertItem ==
    /\ pc = "insert"
    /\ idx < Len(steam_games)
    /\ LET steam_game == steam_games[idx + 1]
           flushed    == Flush(session, pending)
       IN  IF ~flushed.ok
           THEN /\ pc' = "done"
                /\ response' = ServerError
                /\ session' = games
                /\ pending' = <<>>
                /\ UNCHANGED <<idx, new_games>>
           ELSE LET existing_game ==
                        FirstBySteamId(flushed.table, steam_game.appid, 1)
                IN  /\ idx' = idx + 1
                    /\ UNCHANGED <<pc, response>>
                    /\ IF existing_game # 0
                       THEN /\ session' = SetPrice(flushed.table, existing_game,
                                                   steam_game.price)
                            /\ pending' = <<>>
                            /\ UNCHANGED new_games
                       ELSE /\ session' = flushed.table
                            /\ pending' = << [name     |-> steam_game.name,
                                              steam_id |-> steam_game.appid,
                                              price    |-> steam_game.price] >>
                            /\ new_games' =
                                 Append(new_games, Len(flushed.table) + 1)
    /\ UNCHANGED <<games, wishlist, game_name, upstream, steam_games, found,
                   games0, request, reqs>>

\* Lines 144-145: the one commit of this branch, then render the new rows
SearchInsertDone ==
    /\ pc = "insert"
    /\ idx = Len(steam_games)
    /\ LET flushed == Flush(session, pending)
       IN  IF flushed.ok
           THEN /\ games' = flushed.table
                /\ session' = flushed.table
                /\ response' = Render(new_games)
           ELSE /\ games' = games
                /\ session' = games
                /\ response' = ServerError
    /\ pc' = "done"
    /\ pending' = <<>>
    /\ UNCHANGED <<wishlist, game_name, upstream, steam_games, idx, found,
                   new_games, games0, request, reqs>>

\* The response has been sent: the request's locals and its session go away
SearchTeardown ==
    /\ pc = "done"
    /\ response.handler = "search"
    /\ pc' = "idle"
    /\ game_name' = <<>>
    /\ upstream' = [status |-> "ok", items |-> <<>>]
    /\ steam_games' = <<>>
    /\ idx' = 0
    /\ found' = <<>>
    /\ session' = <<>>
    /\ pending' = <<>>
    /\ new_games' = <<>>
    /\ games0' = <<>>
    /\ response' = NoResponse
    /\ UNCHANGED <<games, wishlist, request, reqs>>

-----------------------------------------------------------------------------
(* Form fields: request.form.get(key, type=...) *)

FormTexts == { <<>>, <<"x", "y">>, <<"0">>, <<"1">>, <<"2">>,
               <<"1", ".", "5">> }

\* A form field: missing from the form, or present with a text
FormFields == [present : {FALSE}, text : { <<>> }]
                \cup [present : {TRUE}, text : FormTexts]

None == [none |-> TRUE, value |-> <<0, 1>>]

Some(v) == [none |-> FALSE, value |-> v]

IsDigit(c) == c \in {"0", "1", "2", "3", "4", "5", "6", "7", "8", "9"}

DigitValue(c) ==
    CASE c = "0" -> 0 [] c = "1" -> 1 [] c = "2" -> 2 [] c = "3" -> 3
      [] c = "4" -> 4 [] c = "5" -> 5 [] c = "6" -> 6 [] c = "7" -> 7
      [] c = "8" -> 8 [] c = "9" -> 9

RECURSIVE DigitsValue(_, _)
DigitsValue(ds, acc) ==
    IF ds = <<>> THEN acc
    ELSE DigitsValue(Tail(ds), 10 * acc + DigitValue(Head(ds)))

RECURSIVE Pow10(_)
Pow10(n) == IF n = 0 THEN 1 ELSE 10 * Pow10(n - 1)

\* A decimal as <<numerator, denominator>> without trailing zeros
RECURSIVE Decimal(_, _)
Decimal(num, den) ==
    IF den > 1 /\ num % 10 = 0 THEN Decimal(num \div 10, den \div 10)
    ELSE <<num, den>>

\* int(text): ValueError unless the text is a run of digits
ParseInt(text) ==
    IF text # <<>> /\ \A i \in 1..Len(text) : IsDigit(text[i])
    THEN Some(DigitsValue(text, 0))
    ELSE None

\* float(text): ValueError unless digits with at most one decimal point
ParseFloat(text) ==
    LET dots   == {i \in 1..Len(text) : text[i] = "."}
        digits == {i \in 1..Len(text) : IsDigit(text[i])}
    IN  IF /\ Cardinality(dots) <= 1
           /\ digits # {}
           /\ dots \cup digits = 1..Len(text)
        THEN LET fraction == IF dots = {} THEN 0
                             ELSE Len(text) - (CHOOSE i \in dots : TRUE)
             IN  Some(Decimal(DigitsValue(SelectSeq(text, IsDigit), 0),
                              Pow10(fraction)))
        ELSE None

\* request.form.get(key, type=int): None when missing or not convertible
FormGetInt(field) == IF field.present THEN ParseInt(field.text) ELSE None

\* Variant of FormGetFloat with default=0.0: a missing or unparsable field
\* reads as 0 (C6 fails under it)
FormGetFloat_DefaultZero(field) ==
    IF field.present /\ ~ParseFloat(field.text).none
    THEN ParseFloat(field.text)
    ELSE Some(<<0, 1>>)

\* request.form.get(key, type=float)
FormGetFloat(field) == IF field.present THEN ParseFloat(field.text) ELSE None

-----------------------------------------------------------------------------
(* Wishlist repository, on a table w (a set of rows) *)

\* Most Wishlist rows the concurrent model lets exist at once
MaxWishlist == 3

\* Ids a URL may carry: the ids that can exist, 0 and one that cannot
UrlIds == 0..(MaxWishlist + 1)

\* Game.query.get(game_id) returns a row
GameExists(t, game_id) == game_id \in 1..Len(t)

\* Variant of WishlistGet that looks the id up in the game_id column
\* (C5 fails under it)
WishlistGet_ByGameId(w, wishlist_id) == {e \in w : e.game_id = wishlist_id}

\* Wishlist.query.get(wishlist_id): the rows with that primary key
WishlistGet(w, wishlist_id) == {e \in w : e.id = wishlist_id}

\* Wishlist.query.filter_by(game_id=...).first() returns a row
HasEntryForGame(w, game_id) == \E e \in w : e.game_id = game_id

\* INTEGER PRIMARY KEY: one more than the largest id in the table
NextWishlistId(w) ==
    IF w = {} THEN 1
    ELSE (CHOOSE m \in {e.id : e \in w} : \A e \in w : e.id <= m) + 1

\* Variant of WishlistInsert under a UNIQUE(game_id) constraint: the insert
\* of a second entry for a game is refused (C8 fails under it)
WishlistInsert_UniqueGame(w, game_id, target_price) ==
    IF \E e \in w : e.game_id = game_id THEN w
    ELSE w \cup { [id |-> IF w = {} THEN 1
                          ELSE (CHOOSE m \in {e.id : e \in w} :
                                   \A e \in w : e.id <= m) + 1,
                   game_id |-> game_id, target_price |-> target_price] }

\* db.session.add(Wishlist(game_id=..., target_price=...)); commit
WishlistInsert(w, game_id, target_price) ==
    w \cup { [id |-> NextWishlistId(w), game_id |-> game_id,
              target_price |-> target_price] }

\* Variant of AddDecision without the existing-entry check (C4 fails under
\* it)
AddDecision_NoEntryCheck(t, w, game_id) ==
    IF game_id \in 1..Len(t) THEN "insert" ELSE "no_game"

\* Lines 154-158: what add_to_wishlist decides from its two reads
AddDecision(t, w, game_id) ==
    IF ~GameExists(t, game_id) THEN "no_game"
    ELSE IF HasEntryForGame(w, game_id) THEN "exists"
    ELSE "insert"

-----------------------------------------------------------------------------
(* Wishlist handlers, one request at a time *)

\* POST /add_to_wishlist/<int:game_id>
AddToWishlist ==
    /\ pc = "idle"
    /\ \E game_id \in UrlIds, field \in FormFields :
         LET target_price == FormGetFloat(field)
             decision     == AddDecision(games, wishlist, game_id)
         IN  /\ request' = [handler |-> "add_to_wishlist", id |-> game_id,
                            target_price |-> field]
             /\ IF decision = "insert"
                THEN /\ wishlist' = WishlistInsert(wishlist, game_id,
                                                   target_price)
                     /\ response' = Redirect("add_to_wishlist", NoFlash, 3)
                ELSE /\ wishlist' = wishlist
                     /\ response' =
                          Redirect("add_to_wishlist", NoFlash,
                                   IF decision = "exists" THEN 2 ELSE 1)
    /\ UNCHANGED <<games, searchVars, reqs>>

\* POST /delete_from_wishlist/<int:wishlist_id>
DeleteFromWishlist ==
    /\ pc = "idle"
    /\ \E wishlist_id \in UrlIds :
         LET item == WishlistGet(wishlist, wishlist_id)
         IN  /\ request' = [handler |-> "delete_from_wishlist",
                            id |-> wishlist_id]
             /\ IF item # {}
                THEN LET entry     == CHOOSE e \in item : TRUE
                         item_game == games[entry.game_id].name
                     IN  /\ wishlist' = wishlist \ {entry}
                         /\ response' =
                              Redirect("delete_from_wishlist",
                                       [msg |-> "removed", game |-> item_game],
                                       3)
                ELSE /\ wishlist' = wishlist
                     /\ response' =
                          Redirect("delete_from_wishlist",
                                   [msg |-> "not_found", game |-> <<>>], 1)
    /\ UNCHANGED <<games, searchVars, reqs>>

\* POST /update_wishlist_item
UpdateWishlistItem ==
    /\ pc = "idle"
    /\ \E id_field \in FormFields, price_field \in FormFields :
         LET wishlist_id      == FormGetInt(id_field)
             new_target_price == FormGetFloat(price_field)
         IN  /\ request' = [handler |-> "update_wishlist_item",
                            wishlist_id |-> id_field,
                            target_price |-> price_field]
             /\ IF wishlist_id.none \/ wishlist_id.value = 0
                   \/ new_target_price.none
                THEN /\ wishlist' = wishlist
                     /\ response' =
                          Redirect("update_wishlist_item",
                                   [msg |-> "invalid", game |-> <<>>], 0)
                ELSE LET item == WishlistGet(wishlist, wishlist_id.value)
                     IN  IF item # {}
                         THEN LET entry == CHOOSE e \in item : TRUE
                              IN  /\ wishlist' =
                                       (wishlist \ {entry}) \cup
                                       { [entry EXCEPT !.target_price =
                                                         new_target_price] }
                                  /\ response' =
                                       Redirect("update_wishlist_item",
                                         [msg  |-> "updated",
                                          game |-> games[entry.game_id].name],
                                         3)
                         ELSE /\ wishlist' = wishlist
                              /\ response' =
                                   Redirect("update_wishlist_item",
                                     [msg |-> "not_found", game |-> <<>>], 1)
    /\ UNCHANGED <<games, searchVars, reqs>>

-----------------------------------------------------------------------------
(* add_to_wishlist handled by concurrent workers: the reads of lines        *)
(* 154-157 and the insert of lines 159-161 are separate database calls      *)

Workers == {1, 2}

IdleWorker == [pc |-> "idle", game_id |-> 0, target_price |-> None]

InFlight == {r \in Workers : reqs[r].pc = "checked"}

\* Lines 153-158: read the Game and look for an existing entry; without a
\* Game, or with an entry, the request ends here with the redirect
AddCheck(r) ==
    /\ reqs[r].pc = "idle"
    /\ Cardinality(wishlist) + Cardinality(InFlight) < MaxWishlist
    /\ \E game_id \in UrlIds, field \in FormFields :
         LET decision == AddDecision(games, wishlist, game_id)
         IN  IF decision = "insert"
             THEN /\ reqs' = [reqs EXCEPT ![r] =
                                [pc |-> "checked", game_id |-> game_id,
                                 target_price |-> FormGetFloat(field)]]
                  /\ response' = response
             ELSE /\ reqs' = reqs
                  /\ response' =
                       Redirect("add_to_wishlist", NoFlash,
                                IF decision = "exists" THEN 2 ELSE 1)
    /\ UNCHANGED <<games, wishlist, searchVars, request>>

\* Lines 159-161: insert the entry and commit, whatever the table holds now
AddInsert(r) ==
    /\ reqs[r].pc = "checked"
    /\ wishlist' = WishlistInsert(wishlist, reqs[r].game_id,
                                  reqs[r].target_price)
    /\ reqs' = [reqs EXCEPT ![r] = IdleWorker]
    /\ response' = Redirect("add_to_wishlist", NoFlash, 3)
    /\ UNCHANGED <<games, searchVars, request>>

-----------------------------------------------------------------------------
(* Specifications *)

\* The search workflow, one request at a time, from an empty database
Next ==
    \/ SearchStart
    \/ SearchRefreshItem
    \/ SearchRefreshDone
    \/ SearchInsertItem
    \/ SearchInsertDone
    \/ SearchTeardown

Spec == Init /\ [][Next]_vars

\* Game tables that earlier searches have left in the database (each is
\* reachable under Spec)
GameTables ==
    { <<>>,
      << [name |-> NameAbc, steam_id |-> 1, price |-> <<4, 99>>] >>,
      << [name |-> NameAbc, steam_id |-> 1, price |-> <<4, 99>>],
         [name |-> NameXy,  steam_id |-> 2, price |-> <<9, 99>>] >> }

InitWishlist ==
    /\ games \in GameTables
    /\ wishlist = {}
    /\ pc = "idle"
    /\ game_name = <<>>
    /\ upstream = [status |-> "ok", items |-> <<>>]
    /\ steam_games = <<>>
    /\ idx = 0
    /\ found = <<>>
    /\ session = <<>>
    /\ pending = <<>>
    /\ new_games = <<>>
    /\ games0 = <<>>
    /\ request = NoRequest
    /\ response = NoResponse
    /\ reqs = <<>>

\* The wishlist handlers, one request at a time
NextWishlist ==
    \/ AddToWishlist
    \/ DeleteFromWishlist
    \/ UpdateWishlistItem

WishlistSpec == InitWishlist /\ [][NextWishlist]_vars

InitConcurrent ==
    /\ games \in GameTables
    /\ wishlist = {}
    /\ pc = "idle"
    /\ game_name = <<>>
    /\ upstream = [status |-> "ok", items |-> <<>>]
    /\ steam_games = <<>>
    /\ idx = 0
    /\ found = <<>>
    /\ session = <<>>
    /\ pending = <<>>
    /\ new_games = <<>>
    /\ games0 = <<>>
    /\ request = NoRequest
    /\ response = NoResponse
    /\ reqs = [r \in Workers |-> IdleWorker]

\* Two workers handling add_to_wishlist requests
NextConcurrent ==
    \/ \E r \in Workers : AddCheck(r)
    \/ \E r \in Workers : AddInsert(r)

ConcurrentSpec == InitConcurrent /\ [][NextConcurrent]_vars

-----------------------------------------------------------------------------
(* Properties.  The helpers below state substring and word membership      *)
(* directly, by positions, independently of the scanning functions above.  *)

Occurs(needle, hay) ==
    \E k \in 0..(Len(hay) - Len(needle)) :
        \A j \in 1..Len(needle) : hay[k + j] = needle[j]

\* The maximal runs of non-space characters of q
WordsOf(q) ==
    { SubSeq(q, a, b) : <<a, b>> \in
        { ab \in (1..Len(q)) \X (1..Len(q)) :
            /\ ab[1] <= ab[2]
            /\ \A j \in ab[1]..ab[2] : q[j] # " "
            /\ (ab[1] = 1 \/ q[ab[1] - 1] = " ")
            /\ (ab[2] = Len(q) \/ q[ab[2] + 1] = " ") } }

RowsOf(rows) == {rows[k] : k \in DOMAIN rows}

\* Ids of the rows present at the start of the request whose name contains
\* the query, ignoring case
LocalMatches ==
    {i \in 1..Len(games0) : Occurs(Lower(game_name), Lower(games0[i].name))}

\* Upstream candidates that pass the word filter and have price data
KeptCandidates ==
    {i \in 1..Len(upstream.items) :
        /\ \A w \in WordsOf(Lower(game_name)) :
               Len(w) > 2 => Occurs(w, Lower(upstream.items[i].name))
        /\ upstream.items[i].details.kind = "price"}

\* C1 (as claimed): processing an item returned by the lookup leaves, in the
\* request's view of the Game table, a row with the item's external id and
\* price: the existing row updated, or else a new row with the item's name,
\* whether or not the name query found rows.  Items whose insertion the
\* unique name would refuse are left aside (the request ends in an error).
C1_ItemUpdatedOrInserted ==
    [][ (pc \in {"refresh", "insert"} /\ idx' = idx + 1) =>
          LET item   == steam_games[idx + 1]
              before == session \o pending
              after  == session' \o pending'
          IN  (\A j \in 1..Len(before) :
                  before[j].name = item.name =>
                      before[j].steam_id = item.appid)
              =>
              \E i \in 1..Len(after) :
                /\ after[i].steam_id = item.appid
                /\ after[i].price = item.price
                /\ (\A j \in 1..Len(before) :
                        before[j].steam_id # item.appid)
                     => (i > Len(before) /\ after[i].name = item.name) ]_vars

\* C2: a rendered search response shows exactly the rows the name query
\* matched at the start of the request when there are any, and otherwise
\* exactly the rows this request inserted (none when the lookup was empty).
C2_ResponseRows ==
    (pc = "done" /\ response.kind = "render") =>
        /\ Len(response.rows) = Cardinality(RowsOf(response.rows))
        /\ IF LocalMatches # {}
           THEN RowsOf(response.rows) = LocalMatches
           ELSE /\ RowsOf(response.rows) = (Len(games0) + 1)..Len(games)
                /\ steam_games = <<>> => response.rows = <<>>

\* C2 witness: no local match, one existing row only price-updated and
\* another row inserted; the response shows a row
C2_Witness ==
    /\ pc = "done"
    /\ response.kind = "render"
    /\ LocalMatches = {}
    /\ response.rows # <<>>
    /\ \E i \in 1..Len(games0) : games[i].price # games0[i].price

\* C3: when the search call of the lookup fails, the lookup result is empty,
\* the handler renders exactly the local matches, and the Game table is as
\* it was.
C3_LookupFailureIsHarmless ==
    (pc # "idle" /\ upstream.status # "ok") =>
        /\ pc = "done"
        /\ steam_games = <<>>
        /\ response.kind = "render"
        /\ Len(response.rows) = Cardinality(LocalMatches)
        /\ RowsOf(response.rows) = LocalMatches
        /\ games = games0

\* C3 witness: a non-success status whose body holds a usable candidate,
\* answered with a non-empty list of local matches
C3_Witness ==
    /\ pc = "done"
    /\ upstream.status = "http_error"
    /\ KeptCandidates # {}
    /\ response.rows # <<>>

\* C7: the lookup result is the upstream list restricted, in order, to the
\* candidates whose name holds every query word longer than 2 characters
\* and whose details call gave price data.
C7_LookupIsFilteredSublist ==
    (pc # "idle" /\ upstream.status = "ok") =>
        /\ Len(steam_games) = Cardinality(KeptCandidates)
        /\ \A i \in KeptCandidates :
             LET k == Cardinality({j \in KeptCandidates : j <= i})
             IN  /\ steam_games[k].name = upstream.items[i].name
                 /\ steam_games[k].appid = upstream.items[i].id

\* C7 witness: a query of one 2-character word keeps a candidate whose name
\* does not hold it, while a candidate whose details call failed is dropped
C7_Witness ==
    /\ pc = "done"
    /\ upstream.status = "ok"
    /\ game_name = <<"x", "y">>
    /\ \E i \in KeptCandidates : upstream.items[i].name = NameAbc
    /\ \E i \in 1..Len(upstream.items) :
         upstream.items[i].details.kind = "fail"

\* C9 (as claimed): when a search ends in an error, every price update it
\* had applied to a row that existed before the request is in the database.
C9_UpdateSurvivesLaterFailure ==
    (pc = "done" /\ response.kind = "error") =>
        \A k \in 1..idx :
            LET row == CHOOSE r \in 0..Len(games0) :
                         /\ r # 0 => games0[r].steam_id = steam_games[k].appid
                         /\ r = 0 => \A j \in 1..Len(games0) :
                                games0[j].steam_id # steam_games[k].appid
            IN  row # 0 =>
                  \/ games[row].price = steam_games[k].price
                  \/ \E later \in (k + 1)..idx :
                       steam_games[later].appid = steam_games[k].appid

\* C10: no two Game rows share an external id; rows are never deleted, keep
\* their name and external id, and a row is inserted only for an external
\* id no row had.
C10_OneRowPerExternalId ==
    /\ [](\A i, j \in 1..Len(games) :
            i # j => games[i].steam_id # games[j].steam_id)
    /\ [][ /\ Len(games') >= Len(games)
           /\ \A i \in 1..Len(games) :
                /\ games'[i].name = games[i].name
                /\ games'[i].steam_id = games[i].steam_id
           /\ \A i \in (Len(games) + 1)..Len(games') :
                \A j \in 1..Len(games) :
                    games[j].steam_id # games'[i].steam_id ]_vars

\* C10 witness: a search whose result list repeats an external id has
\* completed and the table holds two rows
C10_Witness ==
    /\ pc = "done"
    /\ response.kind = "render"
    /\ Len(games) = 2
    /\ \E k1, k2 \in 1..Len(steam_games) :
         k1 # k2 /\ steam_games[k1].appid = steam_games[k2].appid

\* Form texts that are decimal numbers, and those that are integers
NumericTexts == { <<"0">>, <<"1">>, <<"2">>, <<"1", ".", "5">> }

IntegerTexts == { <<"0">>, <<"1">>, <<"2">> }

\* C4: handled one after another, add, delete and update requests never
\* leave a Game referenced by two Wishlist rows, and an add for a game that
\* has an entry, or for no game, changes nothing.
C4_OneEntryPerGame ==
    /\ [](\A e1, e2 \in wishlist : e1.game_id = e2.game_id => e1 = e2)
    /\ [][ (/\ request'.handler = "add_to_wishlist"
            /\ \/ request'.id \notin 1..Len(games)
               \/ \E e \in wishlist : e.game_id = request'.id)
           => wishlist' = wishlist ]_vars

\* C4 witness: a second add for a game that has an entry has been handled
\* and the game has exactly one row
C4_Witness ==
    /\ request.handler = "add_to_wishlist"
    /\ request.id \in 1..Len(games)
    /\ response.dbops = 2
    /\ Cardinality({e \in wishlist : e.game_id = request.id}) = 1

\* C5: deleting an id that no entry has gives the "not found" notice and
\* removes nothing; deleting an existing id removes that row only, leaves
\* the Game table alone and gives the success notice naming the game.
C5_DeleteExactlyThatRow ==
    [][ request'.handler = "delete_from_wishlist" =>
          IF \A e \in wishlist : e.id # request'.id
          THEN /\ response'.flash.msg = "not_found"
               /\ wishlist' = wishlist
               /\ games' = games
          ELSE /\ \A e \in wishlist : e.id # request'.id <=> e \in wishlist'
               /\ wishlist' \subseteq wishlist
               /\ games' = games
               /\ response'.flash.msg = "removed"
               /\ \E e \in wishlist :
                    /\ e.id = request'.id
                    /\ response'.flash.game = games[e.game_id].name ]_vars

\* C5 witness: an existing entry has been deleted and another entry remains
C5_Witness ==
    /\ request.handler = "delete_from_wishlist"
    /\ response.flash.msg = "removed"
    /\ wishlist # {}

\* C6: an update whose target_price is missing or not a number, or whose
\* wishlist_id is missing or not an integer, gives the "invalid submission"
\* notice, touches no table and still redirects.
C6_InvalidUpdateIsNoOp ==
    [][ (/\ request'.handler = "update_wishlist_item"
         /\ \/ ~request'.target_price.present
            \/ request'.target_price.text \notin NumericTexts
            \/ ~request'.wishlist_id.present
            \/ request'.wishlist_id.text \notin IntegerTexts)
        => /\ response'.flash.msg = "invalid"
           /\ response'.dbops = 0
           /\ response'.kind = "redirect"
           /\ wishlist' = wishlist
           /\ games' = games ]_vars

\* C6 witness: an update naming an existing entry that has a target price,
\* with a target_price that is not a number, was answered "invalid"
C6_Witness ==
    /\ request.handler = "update_wishlist_item"
    /\ request.target_price.present
    /\ request.target_price.text = <<"x", "y">>
    /\ request.wishlist_id.text = <<"1">>
    /\ response.flash.msg = "invalid"
    /\ \E e \in wishlist : e.id = 1 /\ ~e.target_price.none

\* C8: a worker that has passed the existence check inserts its entry
\* whatever the table holds by then, so two workers that passed it for the
\* same game both insert.
C8_InsertAfterCheckIsUnconditional ==
    [][ \A r \in Workers :
          (reqs[r].pc = "checked" /\ reqs'[r].pc = "idle") =>
            /\ Cardinality(wishlist') = Cardinality(wishlist) + 1
            /\ \E e \in wishlist' \ wishlist :
                 e.game_id = reqs[r].game_id ]_vars

\* C8 witness: two Wishlist rows reference the same game
C8_Witness ==
    \E e1, e2 \in wishlist : e1 # e2 /\ e1.game_id = e2.game_id

====
